---- MODULE Spec2Model ----
(***************************************************************************)
(* MarkupExplorer (src/src/main.rs): an interactive shell that tokenizes   *)
(* each input line (parse_line), dispatches on the first token            *)
(* (process_line: cols, find, url, head) and keeps a session of           *)
(* url / contents / cols.                                                  *)
(*                                                                         *)
(* Strings are sequences of one-character strings, Option<T> is a         *)
(* sequence of length 0 (None) or 1 (Some).                                *)
(***************************************************************************)
EXTENDS Integers, Sequences, FiniteSets, TLC

\* ------------------------------------------------------------------ bounds
\* longest raw line handed to the tokenizer
MaxLen == 4
\* most tokens of a line built from a token sequence
MaxToks == 2
\* longest token of a built line
MaxTokLen == 2

\* ------------------------------------------------------------ Option<T>
None == <<>>

Some(x) == <<x>>

is_some(o) == Len(o) = 1

unwrap(o) == o[1]

\* ------------------------------------------------------------ characters
SPACE == " "

QUOTE == "\""

BACKSLASH == "\\"

\* characters of the raw lines the tokenizer is run on
Alphabet == {"a", "b", SPACE, QUOTE, BACKSLASH}

\* characters of the tokens a line is built from (no quote, no backslash)
TokenChars == {"a", "b", SPACE}

\* all sequences over S of length lo..hi
SeqsOf(S, lo, hi) == UNION {[1..n -> S] : n \in lo..hi}

\* ------------------------------------------------------------- tokenizer
\* state of the scan before the first character (main.rs 27-30)
ScanInit == [args |-> <<>>, next |-> <<>>, quoted |-> FALSE, escaped |-> FALSE]

\* ScanChar with the escaped branch tried after the quote and space branches:
\* an escaped quote or space is then treated as an unescaped one
ScanChar_late_escape(st, char) ==
    IF char = BACKSLASH THEN
        [st EXCEPT !.escaped = TRUE]
    ELSE IF st.quoted /\ char = QUOTE THEN
        [st EXCEPT !.quoted = FALSE, !.args = Append(@, st.next), !.next = <<>>,
                   !.escaped = FALSE]
    ELSE IF char = QUOTE THEN
        [st EXCEPT !.quoted = TRUE, !.escaped = FALSE]
    ELSE IF ~st.quoted /\ char = SPACE THEN
        [st EXCEPT !.args = Append(@, st.next), !.next = <<>>, !.escaped = FALSE]
    ELSE
        [st EXCEPT !.escaped = FALSE, !.next = Append(@, char)]

\* ScanChar that closes a token at a space only when it is not empty, so that
\* runs of spaces separate like one space
ScanChar_skip_empty(st, char) ==
    IF char = BACKSLASH THEN
        [st EXCEPT !.escaped = TRUE]
    ELSE IF st.escaped THEN
        [st EXCEPT !.escaped = FALSE, !.next = Append(@, char)]
    ELSE IF st.quoted /\ char = QUOTE THEN
        [st EXCEPT !.quoted = FALSE, !.args = Append(@, st.next), !.next = <<>>]
    ELSE IF char = QUOTE THEN
        [st EXCEPT !.quoted = TRUE]
    ELSE IF ~st.quoted /\ char = SPACE THEN
        IF Len(st.next) > 0
        THEN [st EXCEPT !.args = Append(@, st.next), !.next = <<>>]
        ELSE st
    ELSE
        [st EXCEPT !.next = Append(@, char)]

\* body of the for loop of parse_line, one character (main.rs 31-49)
ScanChar(st, char) ==
    IF char = BACKSLASH THEN
        [st EXCEPT !.escaped = TRUE]
    ELSE IF st.escaped THEN
        [st EXCEPT !.escaped = FALSE, !.next = Append(@, char)]
    ELSE IF st.quoted /\ char = QUOTE THEN
        [st EXCEPT !.quoted = FALSE, !.args = Append(@, st.next), !.next = <<>>]
    ELSE IF char = QUOTE THEN
        [st EXCEPT !.quoted = TRUE]
    ELSE IF ~st.quoted /\ char = SPACE THEN
        [st EXCEPT !.args = Append(@, st.next), !.next = <<>>]
    ELSE
        [st EXCEPT !.next = Append(@, char)]

\* ScanEnd that pushes the last token of a closed line only: what is left in
\* an open quoted region or after a trailing backslash is dropped
ScanEnd_closed_only(st) ==
    IF Len(st.next) > 0 /\ ~st.quoted /\ ~st.escaped THEN Append(st.args, st.next)
    ELSE st.args

\* the push after the loop (main.rs 50-53)
ScanEnd(st) == IF Len(st.next) > 0 THEN Append(st.args, st.next) ELSE st.args

RECURSIVE ScanFrom(_, _, _)
ScanFrom(st, line, i) ==
    IF i > Len(line) THEN st ELSE ScanFrom(ScanChar(st, line[i]), line, i + 1)

\* parse_line (main.rs 24-54)
parse_line(line) == ScanEnd(ScanFrom(ScanInit, line, 1))

\* ------------------------------------------- lines built from token lists
\* a token is written in double quotes when it contains a space
QuoteToken(tok) ==
    IF \E i \in 1..Len(tok) : tok[i] = SPACE THEN <<QUOTE>> \o tok \o <<QUOTE>> ELSE tok

RECURSIVE JoinTokens(_)
JoinTokens(toks) ==
    IF Len(toks) = 0 THEN <<>>
    ELSE IF Len(toks) = 1 THEN QuoteToken(toks[1])
    ELSE QuoteToken(toks[1]) \o <<SPACE>> \o JoinTokens(Tail(toks))

TokenSeqs == SeqsOf(SeqsOf(TokenChars, 1, MaxTokLen), 0, MaxToks)

RawLines == SeqsOf(Alphabet, 0, MaxLen)

\* -------------------------------------------------------------- integers
Digits == <<"0", "1", "2", "3", "4", "5", "6", "7", "8", "9">>

IsDigit(c) == \E d \in 1..10 : Digits[d] = c

DigitVal(c) == (CHOOSE d \in 1..10 : Digits[d] = c) - 1

RECURSIVE DigitsVal(_, _, _)
DigitsVal(tok, i, acc) ==
    IF i > Len(tok) THEN acc ELSE DigitsVal(tok, i + 1, acc * 10 + DigitVal(tok[i]))

\* str::parse for usize / u32 (main.rs 78, 135): an optional '+', then one or
\* more decimal digits; anything else is an error (None).  The tokens of the
\* model are far too short to overflow either type.
parse(tok) ==
    LET body == IF Len(tok) > 0 /\ tok[1] = "+" THEN Tail(tok) ELSE tok
    IN  IF Len(body) > 0 /\ \A i \in 1..Len(body) : IsDigit(body[i])
        THEN Some(DigitsVal(body, 1, 0))
        ELSE None

\* decimal numeral of a natural number (to write input lines)
RECURSIVE Dec(_)
Dec(n) == IF n < 10 THEN <<Digits[n + 1]>> ELSE Dec(n \div 10) \o <<Digits[(n % 10) + 1]>>

\* ------------------------------------------------------------- documents
NEWLINE == "\n"

\* a line of n characters, all positions distinguishable: 0123456789012...
LineOf(n) == [i \in 1..n |-> Digits[((i - 1) % 10) + 1]]

\* most lines of a fetched document
MaxDocLines == 2

\* lengths of the lines of the fetched documents: empty, as wide as
\* "cols 10", wider than the default 80
LineLens == <<0, 10, 81>>

RECURSIVE JoinLines(_)
JoinLines(ls) ==
    IF Len(ls) = 1 THEN ls[1] ELSE ls[1] \o <<NEWLINE>> \o JoinLines(Tail(ls))

\* the document of k lines whose lines cycle through LineLens from the s-th on
TextOf(k, s) ==
    JoinLines([i \in 1..k |-> LineOf(LineLens[((s + i - 2) % Len(LineLens)) + 1])])

Texts == {TextOf(k, s) : k \in 1..MaxDocLines, s \in 1..Len(LineLens)}

\* str::split("\n") (main.rs 140): the pieces between the separators, always
\* one piece more than there are separators
split(text) ==
    LET seps == {i \in 1..Len(text) : text[i] = NEWLINE}
        n == Cardinality(seps)
        sep(k) == IF k = 0 THEN 0
                  ELSE IF k = n + 1 THEN Len(text) + 1
                  ELSE CHOOSE i \in seps : Cardinality({j \in seps : j < i}) = k - 1
    IN  [k \in 1..(n + 1) |-> SubSeq(text, sep(k - 1) + 1, sep(k) - 1)]

\* --------------------------------------------------------- the markup tree
\* What soup::Soup::new returns for a document (main.rs 82): the nodes in
\* document order; the parser always supplies html, head and body.
w_html == <<"h", "t", "m", "l">>

w_head == <<"h", "e", "a", "d">>

w_body == <<"b", "o", "d", "y">>

w_div == <<"d", "i", "v">>

w_p == <<"p">>

w_id == <<"i", "d">>

w_class == <<"c", "l", "a", "s", "s">>

w_text == <<"[", "t", "e", "x", "t", "]">>

Node(name, elem, attrs, children) ==
    [name |-> name, elem |-> elem, attrs |-> attrs, children |-> children]

\* the tree of a document without markup
TreeBare ==
    [top |-> <<1>>,
     nodes |-> << Node(w_html, TRUE, <<>>, <<2, 3>>),
                  Node(w_head, TRUE, <<>>, <<>>),
                  Node(w_body, TRUE, <<>>, <<>>) >>]

\* <body><div id=x class=y><p>..</p></div><p id=z></p></body>
TreeDiv ==
    [top |-> <<1>>,
     nodes |-> << Node(w_html, TRUE, <<>>, <<2, 3>>),
                  Node(w_head, TRUE, <<>>, <<>>),
                  Node(w_body, TRUE, <<>>, <<4, 7>>),
                  Node(w_div, TRUE, << <<w_id, <<"x">> >>, <<w_class, <<"y">> >> >>, <<5>>),
                  Node(w_p, TRUE, <<>>, <<6>>),
                  Node(w_text, FALSE, <<>>, <<>>),
                  Node(w_p, TRUE, << <<w_id, <<"z">> >> >>, <<>>) >>]

\* the tree the markup parser builds from a text: the one-line documents are
\* the ones without markup
TreeOf(text) == IF \E i \in 1..Len(text) : text[i] = NEWLINE THEN TreeDiv ELSE TreeBare

\* a response body: its text and the tree the markup parser builds from it
Bodies == {[text |-> t, tree |-> TreeOf(t)] : t \in Texts}

\* soup.tag(name).find() (main.rs 94): first element in document order
tag_find(tree, name) ==
    LET hits == {n \in 1..Len(tree.nodes) :
                    tree.nodes[n].elem /\ tree.nodes[n].name = name}
    IN  IF hits = {} THEN None ELSE Some(CHOOSE n \in hits : \A m \in hits : n <= m)

\* soup.tag(true).find() (main.rs 92): first element of any name
tag_find_any(tree) ==
    LET hits == {n \in 1..Len(tree.nodes) : tree.nodes[n].elem}
    IN  IF hits = {} THEN None ELSE Some(CHOOSE n \in hits : \A m \in hits : n <= m)

\* ------------------------------------------------------------ input lines
w_cols == <<"c", "o", "l", "s">>

w_find == <<"f", "i", "n", "d">>

w_url == <<"u", "r", "l">>

w_max == <<"m", "a", "x">>

w_tag == <<"t", "a", "g">>

w_true == <<"t", "r", "u", "e">>

w_name == <<"n", "a", "m", "e">>

w_attrs == <<"a", "t", "t", "r", "s">>

w_values == <<"v", "a", "l", "u", "e", "s">>

w_tree == <<"t", "r", "e", "e">>

\* words that are no command, no keyword, no number and no tag of a document
w_ls == <<"l", "s">>

w_q == <<"q">>

\* the URLs the user asks for
Urls == {<<"u">>, <<"v">>}

\* largest count given to head
MaxHead == 3

\* the widths given to cols
Widths == {0, 2, 3, 10}

\* the lines the user types: the tokens joined by single spaces
CommandLines ==
    {JoinTokens(ws) : ws \in
        {<<>>, <<w_ls>>, <<w_ls, w_cols, w_max>>, << <<>>, w_cols, w_max>>,
         <<w_cols>>, <<w_cols, w_max>>, <<w_cols, w_q>>, <<w_cols, <<>>, w_max>>,
         <<w_url>>, <<w_head>>, <<w_head, w_q>>, <<w_head, <<>>, Dec(1)>>,
         <<w_find>>, <<w_find, w_tag>>, <<w_find, w_name>>, <<w_find, w_attrs>>,
         <<w_find, w_values>>, <<w_find, w_tree>>, <<w_find, w_q>>,
         <<w_find, w_tag, w_q>>, <<w_find, w_tag, w_name>>,
         <<w_find, w_tag, w_true, w_name>>,
         <<w_find, w_tag, w_body, w_name>>,
         <<w_find, w_tag, w_div, w_attrs, w_values, w_tree>>,
         <<w_find, w_tag, w_p, w_name, w_tag, w_q, w_name>>,
         <<w_find, w_tree, w_tag, w_div, w_name, w_q, w_tree>>}
        \cup {<<w_cols, Dec(n)>> : n \in Widths}
        \cup {<<w_head, Dec(n)>> : n \in 0..MaxHead}
        \cup {<<w_url, u>> : u \in Urls}}

\* let mut args = self.parse_line(line) (main.rs 67), for each of the lines
Tokens == {<<l, parse_line(l)>> : l \in CommandLines}

\* what reqwest::get and Response::text can come to (main.rs 58-62)
FetchOutcomes == {"transport", "server", "body", "ok"}

\* --------------------------------------------------------------- url
\* url_contents that stores the body of a server-error response too
url_contents_no_status_check(old, outcome, body) ==
    IF outcome \in {"ok", "server"} THEN Some(body) ELSE old

\* url_contents that forgets the document when the fetch fails
url_contents_cleared_on_failure(old, outcome, body) ==
    IF outcome = "ok" THEN Some(body) ELSE None

\* self.contents after MarkupExplorer::url (main.rs 58-62): the body when the
\* request, the status check and the read of the body all went well,
\* otherwise what it was
url_contents(old, outcome, body) ==
    IF outcome = "ok" THEN Some(body) ELSE old

\* --------------------------------------------------------------- find
Outcome(result, err, out) == [result |-> result, err |-> err, out |-> out]

\* how the find arm ends, node the working node at that moment
FindOutcome(result, err, out, node) ==
    [result |-> result, err |-> err, out |-> out, node |-> node]

NodeNames(tree, ids) == [k \in 1..Len(ids) |-> tree.nodes[ids[k]].name]

AttrNames(n) == [k \in 1..Len(n.attrs) |-> n.attrs[k][1]]

AttrValues(n) == [k \in 1..Len(n.attrs) |-> n.attrs[k][1] \o <<" ", "=", " ">> \o n.attrs[k][2]]

\* find_loop without the check of lines 96-98: a tag that is not found leaves
\* the working node unset and the loop goes on
RECURSIVE find_loop_no_check(_, _, _, _, _)
find_loop_no_check(tree, args, i, node, out) ==
    IF i > Len(args) THEN FindOutcome("ok", "", out, node)
    ELSE LET value == args[i] IN
      IF value = w_tag THEN
          IF i + 1 > Len(args) THEN FindOutcome("panic", "No tag specified!", out, node)
          ELSE LET tag == args[i + 1]
                   found == IF tag = w_true THEN tag_find_any(tree)
                                            ELSE tag_find(tree, tag)
               IN  find_loop_no_check(tree, args, i + 2, found, out)
      ELSE IF value = w_name THEN
          IF ~is_some(node) THEN FindOutcome("panic", "unwrap on None", out, node)
          ELSE find_loop_no_check(tree, args, i + 1, node,
                         Append(out, tree.nodes[unwrap(node)].name))
      ELSE IF value = w_attrs THEN
          IF ~is_some(node) THEN FindOutcome("panic", "unwrap on None", out, node)
          ELSE find_loop_no_check(tree, args, i + 1, node,
                         out \o AttrNames(tree.nodes[unwrap(node)]))
      ELSE IF value = w_values THEN
          IF ~is_some(node) THEN FindOutcome("panic", "unwrap on None", out, node)
          ELSE find_loop_no_check(tree, args, i + 1, node,
                         out \o AttrValues(tree.nodes[unwrap(node)]))
      ELSE IF value = w_tree THEN
          LET children == IF is_some(node) THEN tree.nodes[unwrap(node)].children
                                           ELSE tree.top
          IN  find_loop_no_check(tree, args, i + 1, node, out \o NodeNames(tree, children))
      ELSE FindOutcome("err", "Unrecognized param", out, node)

\* find_loop that goes on with the token after tag: the value of a tag is
\* then run as a keyword too
RECURSIVE find_loop_value_as_keyword(_, _, _, _, _)
find_loop_value_as_keyword(tree, args, i, node, out) ==
    IF i > Len(args) THEN FindOutcome("ok", "", out, node)
    ELSE LET value == args[i] IN
      IF value = w_tag THEN
          IF i + 1 > Len(args) THEN FindOutcome("panic", "No tag specified!", out, node)
          ELSE LET tag == args[i + 1]
                   found == IF tag = w_true THEN tag_find_any(tree)
                                            ELSE tag_find(tree, tag)
               IN  IF ~is_some(found) THEN FindOutcome("err", "Unable to find tag", out, found)
                   ELSE find_loop_value_as_keyword(tree, args, i + 1, found, out)
      ELSE IF value = w_name THEN
          IF ~is_some(node) THEN FindOutcome("panic", "unwrap on None", out, node)
          ELSE find_loop_value_as_keyword(tree, args, i + 1, node,
                         Append(out, tree.nodes[unwrap(node)].name))
      ELSE IF value = w_attrs THEN
          IF ~is_some(node) THEN FindOutcome("panic", "unwrap on None", out, node)
          ELSE find_loop_value_as_keyword(tree, args, i + 1, node,
                         out \o AttrNames(tree.nodes[unwrap(node)]))
      ELSE IF value = w_values THEN
          IF ~is_some(node) THEN FindOutcome("panic", "unwrap on None", out, node)
          ELSE find_loop_value_as_keyword(tree, args, i + 1, node,
                         out \o AttrValues(tree.nodes[unwrap(node)]))
      ELSE IF value = w_tree THEN
          LET children == IF is_some(node) THEN tree.nodes[unwrap(node)].children
                                           ELSE tree.top
          IN  find_loop_value_as_keyword(tree, args, i + 1, node, out \o NodeNames(tree, children))
      ELSE FindOutcome("err", "Unrecognized param", out, node)

\* the while loop of the find arm (main.rs 86-127): args[i] is the current
\* argument, node the working node, out the lines printed so far
RECURSIVE find_loop(_, _, _, _, _)
find_loop(tree, args, i, node, out) ==
    IF i > Len(args) THEN FindOutcome("ok", "", out, node)
    ELSE LET value == args[i] IN
      IF value = w_tag THEN
          IF i + 1 > Len(args) THEN FindOutcome("panic", "No tag specified!", out, node)
          ELSE LET tag == args[i + 1]
                   found == IF tag = w_true THEN tag_find_any(tree)
                                            ELSE tag_find(tree, tag)
               IN  IF ~is_some(found) THEN FindOutcome("err", "Unable to find tag", out, found)
                   ELSE find_loop(tree, args, i + 2, found, out)
      ELSE IF value = w_name THEN
          IF ~is_some(node) THEN FindOutcome("panic", "unwrap on None", out, node)
          ELSE find_loop(tree, args, i + 1, node,
                         Append(out, tree.nodes[unwrap(node)].name))
      ELSE IF value = w_attrs THEN
          IF ~is_some(node) THEN FindOutcome("panic", "unwrap on None", out, node)
          ELSE find_loop(tree, args, i + 1, node,
                         out \o AttrNames(tree.nodes[unwrap(node)]))
      ELSE IF value = w_values THEN
          IF ~is_some(node) THEN FindOutcome("panic", "unwrap on None", out, node)
          ELSE find_loop(tree, args, i + 1, node,
                         out \o AttrValues(tree.nodes[unwrap(node)]))
      ELSE IF value = w_tree THEN
          LET children == IF is_some(node) THEN tree.nodes[unwrap(node)].children
                                           ELSE tree.top
          IN  find_loop(tree, args, i + 1, node, out \o NodeNames(tree, children))
      ELSE FindOutcome("err", "Unrecognized param", out, node)

\* find_seed that takes up the working node the last find ended with
find_seed_keeps(last) == last

\* let mut node = None (main.rs 85): the working node a find starts with, last
\* the one the find of the line before ended with
find_seed(last) == None

\* the find arm (main.rs 81-128)
find(contents, last, args) ==
    IF ~is_some(contents) THEN FindOutcome("panic", "No contents to parse.", <<>>, None)
    ELSE find_loop(unwrap(contents).tree, args, 1, find_seed(last), <<>>)

\* --------------------------------------------------------------- head
Min(a, b) == IF a < b THEN a ELSE b

\* chars.iter().take(n).collect()
take(chars, n) == SubSeq(chars, 1, Min(n, Len(chars)))

\* self.cols.unwrap() - 3 in usize (main.rs 144), for a line of len chars.
\* Below 3 the subtraction overflows: with overflow checks it panics, without
\* it wraps to 2^64 - 3 + cols, more than any line has characters, which is
\* written here as len.
TruncLen(width, len) == IF width >= 3 THEN width - 3 ELSE len

\* the for loop of the head arm (main.rs 140-153): lines[i] is the current
\* line, count the lines printed so far
RECURSIVE head_loop(_, _, _, _, _, _, _)
head_loop(lines, i, count, max, width, checks, out) ==
    IF i > Len(lines) THEN Outcome("ok", "", out)
    ELSE LET chars == lines[i] IN
      IF is_some(width) /\ Len(chars) > unwrap(width) /\ unwrap(width) < 3 /\ checks
      THEN Outcome("panic", "attempt to subtract with overflow", out)
      ELSE LET printed ==
                  IF is_some(width) /\ Len(chars) > unwrap(width)
                  THEN take(chars, TruncLen(unwrap(width), Len(chars))) \o <<".", ".", ".">>
                  ELSE chars
           IN  IF count + 1 >= max THEN Outcome("ok", "", Append(out, printed))
               ELSE head_loop(lines, i + 1, count + 1, max, width, checks,
                              Append(out, printed))

\* the head arm (main.rs 133-156)
head(contents, width, checks, args) ==
    IF Len(args) = 0 THEN Outcome("panic", "index out of bounds", <<>>)
    ELSE LET max == parse(args[1]) IN
      IF ~is_some(max) THEN Outcome("err", "ParseIntError", <<>>)
      ELSE IF ~is_some(contents) THEN Outcome("err", "No contents available.", <<>>)
      ELSE head_loop(split(unwrap(contents).text), 1, 0, unwrap(max),
                     width, checks, <<>>)

\* ------------------------------------------------------------- variables
VARIABLES
    url,              \* MarkupExplorer.url
    contents,         \* MarkupExplorer.contents: the body last stored
    cols,             \* MarkupExplorer.cols
    overflow_checks,  \* whether the build panics on integer overflow
    phase,            \* "running" in the loop of main, "stopped" after it
    stop,             \* why the loop ended
    line,             \* the line last handed to process_line
    result,           \* how process_line ended on it: "ok", "err", "panic"
    err,              \* the message of its error or panic
    out,              \* the lines it printed
    fetch,            \* how the fetch of the last line went ("none": no fetch)
    fetched,          \* the url and body of the last fetch that succeeded
    before,           \* url, contents and cols when the last line was read
    node,             \* the working node the find of the last line ended with
    tline, tsrc, tpos, tscan, tdone, targs

svars == <<url, contents, cols, overflow_checks, phase, stop, line, result, err,
           out, fetch, fetched, before, node>>

tvars == <<tline, tsrc, tpos, tscan, tdone, targs>>

vars == <<url, contents, cols, overflow_checks, phase, stop, line, result, err,
          out, fetch, fetched, before, node, tline, tsrc, tpos, tscan, tdone, targs>>

\* MarkupExplorer::new (main.rs 16-22) and the state before the first line
SessionInit ==
    /\ url = None
    /\ contents = None
    /\ cols = Some(80)
    /\ phase = "running"
    /\ stop = "none"
    /\ line = <<>>
    /\ result = "none"
    /\ err = ""
    /\ out = <<>>
    /\ fetch = "none"
    /\ fetched = None
    /\ before = [url |-> None, contents |-> None, cols |-> Some(80)]
    /\ node = None

\* the tokenizer variables while the session runs
TokIdle ==
    /\ tline = <<>>
    /\ tsrc = [built |-> FALSE, toks |-> <<>>]
    /\ tpos = 1
    /\ tscan = ScanInit
    /\ tdone = FALSE
    /\ targs = <<>>

Init ==
    /\ SessionInit
    /\ overflow_checks \in BOOLEAN
    /\ TokIdle

\* the tokens of the line last processed
Args == parse_line(line)

\* what the loop of main does once process_line has ended (main.rs 185-188):
\* an Err is printed and the loop goes on; a panic ends the process
Done(l, o) ==
    /\ line' = l
    /\ node' = IF "node" \in DOMAIN o THEN o.node ELSE None
    /\ before' = [url |-> url, contents |-> contents, cols |-> cols]
    /\ result' = o.result
    /\ err' = o.err
    /\ out' = o.out
    /\ phase' = IF o.result = "panic" THEN "stopped" ELSE "running"
    /\ stop' = IF o.result = "panic" THEN "panic" ELSE "none"

\* args.len() == 0 (main.rs 68-70)
EmptyLine ==
    \E la \in Tokens :
        LET l == la[1]
            args == la[2] IN
        /\ phase = "running"
        /\ Len(args) = 0
        /\ Done(l, Outcome("ok", "", <<>>))
        /\ fetch' = "none"
        /\ UNCHANGED <<url, contents, cols, overflow_checks, fetched>>
        /\ UNCHANGED tvars

\* the "cols" arm (main.rs 73-80)
ColsCmd ==
    \E la \in Tokens :
        LET l == la[1]
            args == la[2] IN
        /\ phase = "running"
        /\ Len(args) > 0 /\ args[1] = w_cols
        /\ LET rest == Tail(args) IN
           IF Len(rest) = 0 THEN
               /\ Done(l, Outcome("panic", "removal index out of bounds", <<>>))
               /\ cols' = cols
           ELSE IF rest[1] = w_max THEN
               /\ Done(l, Outcome("ok", "", <<>>))
               /\ cols' = None
           ELSE IF is_some(parse(rest[1])) THEN
               /\ Done(l, Outcome("ok", "", <<>>))
               /\ cols' = Some(unwrap(parse(rest[1])))
           ELSE
               /\ Done(l, Outcome("err", "ParseIntError", <<>>))
               /\ cols' = cols
        /\ fetch' = "none"
        /\ UNCHANGED <<url, contents, overflow_checks, fetched>>
        /\ UNCHANGED tvars

\* the "find" arm (main.rs 81-128)
FindCmd ==
    \E la \in Tokens :
        LET l == la[1]
            args == la[2] IN
        /\ phase = "running"
        /\ Len(args) > 0 /\ args[1] = w_find
        /\ Done(l, find(contents, node, Tail(args)))
        /\ fetch' = "none"
        /\ UNCHANGED <<url, contents, cols, overflow_checks, fetched>>
        /\ UNCHANGED tvars

\* the "url" arm (main.rs 129-132) with MarkupExplorer::url (main.rs 56-64)
UrlCmd ==
    \E la \in Tokens :
        LET l == la[1]
            args == la[2] IN
        /\ phase = "running"
        /\ Len(args) > 0 /\ args[1] = w_url
        /\ IF Len(args) = 1 THEN
               /\ Done(l, Outcome("panic", "index out of bounds", <<>>))
               /\ fetch' = "none"
               /\ UNCHANGED <<url, contents, fetched>>
           ELSE
               /\ url' = Some(args[2])
               /\ \E outcome \in FetchOutcomes, body \in Bodies :
                     /\ fetch' = outcome
                     /\ contents' = url_contents(contents, outcome, body)
                     /\ IF outcome = "ok" THEN
                            /\ fetched' = Some([url |-> args[2], body |-> body])
                            /\ Done(l, Outcome("ok", "", <<>>))
                        ELSE
                            /\ fetched' = fetched
                            /\ Done(l, Outcome("err", outcome, <<>>))
        /\ UNCHANGED <<cols, overflow_checks>>
        /\ UNCHANGED tvars

\* the "head" arm (main.rs 133-156)
HeadCmd ==
    \E la \in Tokens :
        LET l == la[1]
            args == la[2] IN
        /\ phase = "running"
        /\ Len(args) > 0 /\ args[1] = w_head
        /\ Done(l, head(contents, cols, overflow_checks, Tail(args)))
        /\ fetch' = "none"
        /\ UNCHANGED <<url, contents, cols, overflow_checks, fetched>>
        /\ UNCHANGED tvars

\* OtherCmd that runs the rest of the line when the first word is no command:
\* "ls cols max" unsets cols
OtherCmd_runs_rest ==
    \E la \in Tokens :
        LET l == la[1]
            args == la[2] IN
        /\ phase = "running"
        /\ Len(args) > 0 /\ args[1] \notin {w_cols, w_find, w_url, w_head}
        /\ Done(l, Outcome("ok", "", <<>>))
        /\ fetch' = "none"
        /\ cols' = IF Tail(args) = <<w_cols, w_max>> THEN None ELSE cols
        /\ UNCHANGED <<url, contents, overflow_checks, fetched>>
        /\ UNCHANGED tvars

\* the default arm (main.rs 157)
OtherCmd ==
    \E la \in Tokens :
        LET l == la[1]
            args == la[2] IN
        /\ phase = "running"
        /\ Len(args) > 0 /\ args[1] \notin {w_cols, w_find, w_url, w_head}
        /\ Done(l, Outcome("ok", "", <<>>))
        /\ fetch' = "none"
        /\ UNCHANGED <<url, contents, cols, overflow_checks, fetched>>
        /\ UNCHANGED tvars

\* readline returns something else than a line (main.rs 190-201)
ReadlineEnds ==
    \E why \in {"interrupt", "eof", "ioerr"} :
        /\ phase = "running"
        /\ phase' = "stopped"
        /\ stop' = why
        /\ UNCHANGED <<url, contents, cols, overflow_checks, line, result, err, out,
                       fetch, fetched, before, node>>
        /\ UNCHANGED tvars

Next == EmptyLine \/ ColsCmd \/ FindCmd \/ UrlCmd \/ HeadCmd \/ OtherCmd \/ ReadlineEnds

Spec == Init /\ [][Next]_vars

\* ------------------------------------------- the tokenizer on its own
TokInit ==
    /\ \/ /\ tline \in RawLines
          /\ tsrc = [built |-> FALSE, toks |-> <<>>]
       \/ \E toks \in TokenSeqs :
             /\ tline = JoinTokens(toks)
             /\ tsrc = [built |-> TRUE, toks |-> toks]
    /\ tpos = 1
    /\ tscan = ScanInit
    /\ tdone = FALSE
    /\ targs = <<>>
    /\ SessionInit
    /\ overflow_checks = TRUE

\* one iteration of the for loop
TokStep ==
    /\ ~tdone
    /\ tpos <= Len(tline)
    /\ tscan' = ScanChar(tscan, tline[tpos])
    /\ tpos' = tpos + 1
    /\ UNCHANGED <<tline, tsrc, tdone, targs>>
    /\ UNCHANGED svars

\* the loop is over: final push and return
TokReturn ==
    /\ ~tdone
    /\ tpos > Len(tline)
    /\ targs' = ScanEnd(tscan)
    /\ tdone' = TRUE
    /\ UNCHANGED <<tline, tsrc, tpos, tscan>>
    /\ UNCHANGED svars

TokNext == TokStep \/ TokReturn

SpecTok == TokInit /\ [][TokNext]_vars

\* parse_line is a loop over the characters of the line and nothing makes it
\* wait: a step that can be taken is taken
SpecTokFair == TokInit /\ [][TokNext]_vars /\ WF_vars(TokNext)

\* ======================================================================
\* Properties
\* ======================================================================

\* the last line processed was this command
LastCommand(w) == Len(Args) > 0 /\ Args[1] = w

\* the arguments of the last line processed, the command removed
LastRest == Tail(Args)

\* the last line processed left url, contents and cols as they were
SessionKept == url = before.url /\ contents = before.contents /\ cols = before.cols

\* ---------------------------------------------------------------- C1
\* C1: every line ends in success or in a reported error and the loop goes
\* on; the session stops only on end of input, interrupt or a failure of the
\* input stream.
C1_NoLineEndsSession ==
    /\ result \in {"none", "ok", "err"}
    /\ phase = "stopped" => stop \in {"eof", "interrupt", "ioerr"}

\* ---------------------------------------------------------------- C2
\* C2: a line built from non-empty tokens without quote or backslash, joined
\* by single spaces, the tokens with a space in double quotes, is tokenized
\* back to exactly these tokens.
C2_RoundTrip == (tdone /\ tsrc.built) => targs = tsrc.toks

\* ---------------------------------------------------------------- C3
HasSpace(tok) == \E i \in 1..Len(tok) : tok[i] = SPACE

\* the assertions of tests::parse_line (main.rs 211-239)
ParseLineTest ==
    /\ parse_line(<<"c", "a", "t", SPACE, "~", "/", "f", "i", "l", "e">>)
         = << <<"c", "a", "t">>,
              <<"~", "/", "f", "i", "l", "e">> >>
    /\ parse_line(<<"c", "a", "t", SPACE, QUOTE, "~", "/", "f", "i", "l", "e", QUOTE>>)
         = << <<"c", "a", "t">>,
              <<"~", "/", "f", "i", "l", "e">> >>
    /\ parse_line(<<"c", "a", "t", SPACE, QUOTE, "q", "u", "o", "t", "e", "d", SPACE, "a", "r", "g", QUOTE>>)
         = << <<"c", "a", "t">>,
              <<"q", "u", "o", "t", "e", "d", SPACE, "a", "r", "g">> >>
    /\ parse_line(<<"c", "a", "t", SPACE, QUOTE, "a", "r", "g", SPACE, "w", "i", "t", "h", SPACE, BACKSLASH, QUOTE, "e", "m", "b", "e", "d", "d", "e", "d", BACKSLASH, QUOTE, SPACE, "q", "u", "o", "t", "e", "s">>)
         = << <<"c", "a", "t">>,
              <<"a", "r", "g", SPACE, "w", "i", "t", "h", SPACE, QUOTE, "e", "m", "b", "e", "d", "d", "e", "d", QUOTE, SPACE, "q", "u", "o", "t", "e", "s">> >>
    /\ parse_line(<<"c", "a", "t", SPACE, "a", "r", "g", BACKSLASH, SPACE, "w", "i", "t", "h", BACKSLASH, SPACE, "e", "s", "c", "a", "p", "e", "d", BACKSLASH, SPACE, "s", "p", "a", "c", "e", "s">>)
         = << <<"c", "a", "t">>,
              <<"a", "r", "g", SPACE, "w", "i", "t", "h", SPACE, "e", "s", "c", "a", "p", "e", "d", SPACE, "s", "p", "a", "c", "e", "s">> >>

\* words without spaces joined by single spaces come back as they are, and so
\* does a line whose last word is written in double quotes
C3_WordsAndQuoted ==
    (/\ tdone
     /\ tsrc.built
     /\ \A k \in 1..(Len(tsrc.toks) - 1) : ~HasSpace(tsrc.toks[k]))
        => targs = tsrc.toks

\* one step of the scan: a quote that is not escaped opens or closes the
\* quoted region and reaches no token; a space inside the region stays in the
\* current token; after a backslash a space or quote is put in the current
\* token, which is not closed, and the region neither opens nor closes
C3_ScanStep ==
    (~tdone /\ tpos <= Len(tline) /\ tpos' = tpos + 1) =>
        LET char == tline[tpos] IN
        /\ (char = QUOTE /\ ~tscan.escaped) =>
              /\ tscan'.quoted = ~tscan.quoted
              /\ tscan'.next = IF tscan.quoted THEN <<>> ELSE tscan.next
              /\ tscan'.args = IF tscan.quoted THEN Append(tscan.args, tscan.next)
                                               ELSE tscan.args
        /\ (char = SPACE /\ tscan.quoted /\ ~tscan.escaped) =>
              /\ tscan'.next = Append(tscan.next, SPACE)
              /\ tscan'.args = tscan.args
              /\ tscan'.quoted
        /\ (char \in {SPACE, QUOTE} /\ tscan.escaped) =>
              /\ tscan'.next = Append(tscan.next, char)
              /\ tscan'.args = tscan.args
              /\ tscan'.quoted = tscan.quoted
              /\ ~tscan'.escaped

\* C3: the grouping the parse_line test asserts: words separated by one space
\* are separate tokens, a double-quoted region is part of one token without
\* its quotes and with its spaces, an escaped space or quote stays in the
\* current token without the backslash and neither splits nor toggles.
C3_Grouping == ParseLineTest /\ []C3_WordsAndQuoted /\ [][C3_ScanStep]_vars

\* an escaped quote inside a quoted region: "\"" is the one token "
C3_Witness ==
    /\ tdone
    /\ tline = <<QUOTE, BACKSLASH, QUOTE, QUOTE>>
    /\ targs = << <<QUOTE>> >>

\* ---------------------------------------------------------------- C4
FetchFailed(f) == f \in {"transport", "server", "body"}

C5_UrlIsLastFetched ==
    url = (IF is_some(fetched) THEN Some(unwrap(fetched).url) ELSE None)

\* ---------------------------------------------------------------- C6
\* a name, attrs or values sub-operation is reached while the working node is
\* unset: nothing but tree sub-operations come before it
NodeNeededWhileUnset(args) ==
    \E i \in 1..Len(args) :
        /\ args[i] \in {w_name, w_attrs, w_values}
        /\ \A j \in 1..(i - 1) : args[j] = w_tree

\* C6: a find command that reaches name, attrs or values with the working
\* node unset returns a recoverable error, and the session is unchanged.
C6_UnsetNodeIsAnError ==
    (/\ LastCommand(w_find)
     /\ is_some(before.contents)
     /\ NodeNeededWhileUnset(LastRest))
        => (result = "err" /\ SessionKept)

\* ---------------------------------------------------------------- C7
TagPresent(tree, t) ==
    \E n \in 1..Len(tree.nodes) :
        tree.nodes[n].elem /\ (t = w_true \/ tree.nodes[n].name = t)

\* the sub-operations from args[i] on reach a tag sub-operation whose tag the
\* tree does not contain; hasNode: an earlier tag sub-operation succeeded
RECURSIVE MissingTagReached(_, _, _, _)
MissingTagReached(tree, args, i, hasNode) ==
    IF i > Len(args) THEN FALSE
    ELSE IF args[i] = w_tag THEN
        /\ i + 1 <= Len(args)
        /\ TagPresent(tree, args[i + 1]) => MissingTagReached(tree, args, i + 2, TRUE)
    ELSE IF args[i] \in {w_name, w_attrs, w_values} THEN
        hasNode /\ MissingTagReached(tree, args, i + 1, hasNode)
    ELSE IF args[i] = w_tree THEN
        MissingTagReached(tree, args, i + 1, hasNode)
    ELSE FALSE

\* C7: a find command whose tag sub-operation names a tag the document does
\* not contain fails with the not-found error, and url, contents and cols are
\* after the command what they were before it.
C7_MissingTagFails ==
    (/\ LastCommand(w_find)
     /\ is_some(before.contents)
     /\ MissingTagReached(unwrap(before.contents).tree, LastRest, 1, FALSE))
        => (/\ result = "err"
            /\ err = "Unable to find tag"
            /\ SessionKept)

\* "find tag p name tag q name" on a document with a p and no q: p is
\* printed, then the command fails
C7_Witness ==
    /\ line = JoinTokens(<<w_find, w_tag, w_p, w_name, w_tag, w_q, w_name>>)
    /\ is_some(contents)
    /\ out = <<w_p>>
    /\ result = "err"
    /\ err = "Unable to find tag"
\* ---------------------------------------------------------------- C8
\* the last line was a head command that head accepts: its count parses and
\* there is a document
HeadAccepted ==
    /\ LastCommand(w_head)
    /\ Len(LastRest) > 0
    /\ is_some(parse(LastRest[1]))
    /\ is_some(before.contents)

HeadMax == unwrap(parse(LastRest[1]))

HeadLines == split(unwrap(before.contents).text)

Ellipsis == <<".", ".", ".">>

\* printed shows the document line: the line itself, or some first
\* characters of it and an ellipsis
Shows(printed, docline) ==
    \/ printed = docline
    \/ \E n \in 0..Len(docline) : printed = SubSeq(docline, 1, n) \o Ellipsis

\* C8: head prints the first min(max, L) lines of the document in document
\* order, L the number of its lines: never more than max lines, and all L
\* lines, with success, when L < max.
C8_HeadPrintsFirstLines ==
    HeadAccepted =>
        /\ result = "ok"
        /\ Len(out) = Min(HeadMax, Len(HeadLines))
        /\ \A k \in 1..Len(out) : Shows(out[k], HeadLines[k])

\* ---------------------------------------------------------------- C9
\* a document line as the claim has head print it under the width
Truncated(docline, width) ==
    IF is_some(width) /\ Len(docline) > unwrap(width)
    THEN SubSeq(docline, 1, unwrap(width) - 3) \o Ellipsis
    ELSE docline

\* C9: with cols set to w, head prints a line of more than w characters as
\* its first w-3 characters and "...", and any other line unchanged; after
\* "cols max" no line is truncated; "cols 10" sets the width to exactly 10.
C9_HeadTruncation ==
    /\ HeadAccepted =>
          /\ result = "ok"
          /\ \A k \in 1..Len(out) : out[k] = Truncated(HeadLines[k], before.cols)
    /\ (LastCommand(w_cols) /\ LastRest = <<w_max>>) => cols = None
    /\ (LastCommand(w_cols) /\ LastRest = <<Dec(10)>>) => cols = Some(10)

\* --------------------------------------------------------------- C10
\* C10: cols is unset or a positive integer in every reachable state.
C10_WidthPositive == ~is_some(cols) \/ unwrap(cols) > 0

\* --------------------------------------------------------------- C11
\* the last line was a cols command without an argument, or with one that is
\* neither max nor an integer
ColsRefused ==
    /\ LastCommand(w_cols)
    /\ \/ Len(LastRest) = 0
       \/ (LastRest[1] # w_max /\ ~is_some(parse(LastRest[1])))

\* C11: a cols command whose argument is absent, or neither max nor a valid
\* integer, fails with an error result and leaves cols as it was.
C11_BadColsIsAnError == ColsRefused => (result = "err" /\ cols = before.cols)

\* --------------------------------------------------------------- C12
\* C12: a backslash that is not itself escaped is dropped, and the character
\* right after it, whatever it is (space, quote or another backslash), is put
\* in the current token, which is not closed, and quoted does not change.
C12_EscapeStep ==
    [][(~tdone /\ tpos <= Len(tline) /\ tpos' = tpos + 1) =>
          LET char == tline[tpos] IN
          /\ (char = BACKSLASH /\ ~tscan.escaped) =>
                /\ tscan'.escaped
                /\ tscan'.next = tscan.next
                /\ tscan'.args = tscan.args
                /\ tscan'.quoted = tscan.quoted
          /\ tscan.escaped =>
                /\ ~tscan'.escaped
                /\ tscan'.next = Append(tscan.next, char)
                /\ tscan'.args = tscan.args
                /\ tscan'.quoted = tscan.quoted]_vars

\* --------------------------------------------------------------- C13
\* the state of the scan before the last character of the line
BeforeLast(l) == ScanFrom(ScanInit, SubSeq(l, 1, Len(l) - 1), 1)

\* the line ends in a space that is neither quoted nor escaped
EndsInPlainSpace(l) ==
    /\ Len(l) > 0
    /\ l[Len(l)] = SPACE
    /\ ~BeforeLast(l).quoted
    /\ ~BeforeLast(l).escaped

\* C13: for a line that ends in unquoted, unescaped whitespace the tokens
\* returned do not end with an empty token.
C13_NoTrailingEmptyToken ==
    (tdone /\ EndsInPlainSpace(tline)) =>
        (Len(targs) = 0 \/ targs[Len(targs)] # <<>>)

\* --------------------------------------------------------------- C14
\* the line ended inside a quoted region or right after a backslash
EndedOpen == tscan.quoted \/ tscan.escaped

\* C14: parse_line returns for every line; when the line ends inside an open
\* quoted region or right after a backslash, what was accumulated in the
\* current token is the last token returned, after the tokens closed before.
C14_AlwaysReturns ==
    /\ <>tdone
    /\ [](tpos <= Len(tline) + 1)
    /\ []((tdone /\ EndedOpen /\ tscan.next # <<>>) =>
             targs = tscan.args \o <<tscan.next>>)
    /\ []((tdone /\ EndedOpen /\ tscan.next = <<>>) => targs = tscan.args)

\* a "b : the quoted region is still open at the end, b is the last token
C14_Witness ==
    /\ tdone
    /\ tline = <<"a", SPACE, QUOTE, "b">>
    /\ tscan.quoted
    /\ targs = << <<"a">>, <<"b">> >>

\* --------------------------------------------------------------- C15
\* the last line had no token, or a first token that is no command
NoCommand == Len(Args) = 0 \/ Args[1] \notin {w_cols, w_url, w_head, w_find}

\* C15: a line without tokens, or whose first token is none of cols, url,
\* head, find, returns success, prints nothing and leaves url, contents and
\* cols unchanged, whatever the other tokens are.
C15_NoCommandIsNoOp ==
    (result # "none" /\ NoCommand) =>
        (result = "ok" /\ out = <<>> /\ fetch = "none" /\ SessionKept)

\* "ls cols max" with a width set: the width stays
C15_Witness ==
    /\ line = JoinTokens(<<w_ls, w_cols, w_max>>)
    /\ result = "ok"
    /\ cols = Some(10)

\* --------------------------------------------------------------- C16
\* The find command as the claim describes it.  The positions of the
\* keywords in the arguments r: the first, and after each keyword the next
\* token, but after tag the next but one (the token after tag is its value).
RECURSIVE KeywordPositions(_, _)
KeywordPositions(r, i) ==
    IF i > Len(r) THEN <<>>
    ELSE <<i>> \o KeywordPositions(r, IF r[i] = w_tag THEN i + 2 ELSE i + 1)

Lookup(tree, t) == IF t = w_true THEN tag_find_any(tree) ELSE tag_find(tree, t)

\* the working node the n-th sub-operation sees: the one the last tag
\* sub-operation before it selected
NodeSeen(tree, r, ks, n) ==
    LET tags == {m \in 1..(n - 1) : r[ks[m]] = w_tag}
    IN  IF tags = {} THEN None
        ELSE Lookup(tree, r[ks[CHOOSE m \in tags : \A x \in tags : x <= m] + 1])

\* how the n-th sub-operation fails, "" when it does not
FailureOf(tree, r, ks, n) ==
    LET k == ks[n] IN
    IF r[k] = w_tag THEN
        IF k + 1 > Len(r) THEN "no value"
        ELSE IF ~is_some(Lookup(tree, r[k + 1])) THEN "not found" ELSE ""
    ELSE IF r[k] \in {w_name, w_attrs, w_values} THEN
        IF ~is_some(NodeSeen(tree, r, ks, n)) THEN "no node" ELSE ""
    ELSE IF r[k] = w_tree THEN ""
    ELSE "unrecognized"

\* the first sub-operation that fails, one more than there are when none does
FirstFailure(tree, r, ks) ==
    LET failing == {n \in 1..Len(ks) : FailureOf(tree, r, ks, n) # ""}
    IN  IF failing = {} THEN Len(ks) + 1
        ELSE CHOOSE n \in failing : \A x \in failing : n <= x

\* what the n-th sub-operation prints
PrintsOf(tree, r, ks, n) ==
    LET seen == NodeSeen(tree, r, ks, n)
        kw == r[ks[n]]
    IN  IF kw = w_name THEN <<tree.nodes[unwrap(seen)].name>>
        ELSE IF kw = w_attrs THEN AttrNames(tree.nodes[unwrap(seen)])
        ELSE IF kw = w_values THEN AttrValues(tree.nodes[unwrap(seen)])
        ELSE IF kw = w_tree THEN
            NodeNames(tree, IF is_some(seen) THEN tree.nodes[unwrap(seen)].children
                                             ELSE tree.top)
        ELSE <<>>

\* what the sub-operations 1..n print, in this order
RECURSIVE PrintsUpTo(_, _, _, _)
PrintsUpTo(tree, r, ks, n) ==
    IF n = 0 THEN <<>>
    ELSE PrintsUpTo(tree, r, ks, n - 1) \o PrintsOf(tree, r, ks, n)

\* C16: the sub-operations of a find run left to right, each seeing the
\* working node the ones before left; the token after tag is its value and is
\* never run as a keyword; when sub-operation k fails (tag not found,
\* unrecognized keyword) what 1..k-1 print has been printed and nothing after
\* k runs; without a failure all of them have run.
C16_FindRunsInOrder ==
    (LastCommand(w_find) /\ is_some(before.contents)) =>
        LET tree == unwrap(before.contents).tree
            r == LastRest
            ks == KeywordPositions(r, 1)
            k == FirstFailure(tree, r, ks)
        IN  /\ out = PrintsUpTo(tree, r, ks, k - 1)
            /\ k > Len(ks) => result = "ok"
            /\ (k <= Len(ks) /\ FailureOf(tree, r, ks, k) \in {"not found", "unrecognized"})
                  => result = "err"

\* "find tree tag div name q tree" on a document with a div: the children of
\* the root and the name of the div are printed, q stops the command
C16_Witness ==
    /\ line = JoinTokens(<<w_find, w_tree, w_tag, w_div, w_name, w_q, w_tree>>)
    /\ is_some(before.contents)
    /\ out = <<w_html, w_div>>
    /\ result = "err"
    /\ err = "Unrecognized param"

\* --------------------------------------------------------------- C17
\* C17: every find starts with the working node unset, whatever the lines
\* before did: a first sub-operation tree prints the children of the root, a
\* first sub-operation name, attrs or values finds no node and prints
\* nothing, and a find without a tag sub-operation ends with the node unset.
C17_FindStartsUnset ==
    (LastCommand(w_find) /\ is_some(before.contents) /\ Len(LastRest) > 0) =>
        LET tree == unwrap(before.contents).tree
            top == NodeNames(tree, tree.top)
            ks == KeywordPositions(LastRest, 1)
        IN  /\ LastRest[1] = w_tree =>
                  (Len(out) >= Len(top) /\ SubSeq(out, 1, Len(top)) = top)
            /\ LastRest[1] \in {w_name, w_attrs, w_values} =>
                  (out = <<>> /\ result # "ok")
            /\ (\A n \in 1..Len(ks) : LastRest[ks[n]] # w_tag) => node = None

\* "find tree" on the document with a div prints html, the child of the root
C17_Witness ==
    /\ line = JoinTokens(<<w_find, w_tree>>)
    /\ is_some(before.contents)
    /\ unwrap(before.contents).tree = TreeDiv
    /\ out = <<w_html>>
    /\ node = None

\* --------------------------------------------------------------- C18
\* the line has no double quote and no backslash
Plain(l) == \A i \in 1..Len(l) : l[i] \notin {QUOTE, BACKSLASH}

SpacesOf(l) == {i \in 1..Len(l) : l[i] = SPACE}

\* the line split on every single space: one piece more than it has spaces
SplitOnSpaces(l) ==
    LET seps == SpacesOf(l)
        n == Cardinality(seps)
        sep(k) == IF k = 0 THEN 0
                  ELSE IF k = n + 1 THEN Len(l) + 1
                  ELSE CHOOSE i \in seps : Cardinality({j \in seps : j < i}) = k - 1
    IN  [k \in 1..(n + 1) |-> SubSeq(l, sep(k - 1) + 1, sep(k) - 1)]

\* the pieces, the last one dropped when it is empty
DropEmptyLast(ps) ==
    IF ps[Len(ps)] = <<>> THEN SubSeq(ps, 1, Len(ps) - 1) ELSE ps

EndsInSpace(l) == Len(l) > 0 /\ l[Len(l)] = SPACE

\* the number of tokens the claim gives for a line with k spaces
CountBySpaces(l) ==
    IF EndsInSpace(l) THEN Cardinality(SpacesOf(l)) ELSE Cardinality(SpacesOf(l)) + 1

\* C18 as stated: for a line without quote and backslash the tokens are the
\* line split on every space, only the last piece dropped when empty; a line
\* with k spaces has k+1 tokens when it does not end in a space, k when it
\* does.
C18_SplitOnEverySpace ==
    (tdone /\ Plain(tline)) =>
        /\ targs = DropEmptyLast(SplitOnSpaces(tline))
        /\ Len(targs) = CountBySpaces(tline)

\* C18 amended: the same, the count for the lines that are not empty; the
\* empty line has no token.
C18_SplitOnEverySpaceNonEmpty ==
    (tdone /\ Plain(tline)) =>
        /\ targs = DropEmptyLast(SplitOnSpaces(tline))
        /\ Len(tline) > 0 => Len(targs) = CountBySpaces(tline)
        /\ Len(tline) = 0 => targs = <<>>

\* two leading spaces and a trailing one: two empty tokens and a
C18_Witness ==
    /\ tdone
    /\ tline = <<SPACE, SPACE, "a", SPACE>>
    /\ targs = << <<>>, <<>>, <<"a">> >>

\* --------------------------------------------------------------- C19
\* C19: with cols set to w, every line head prints has at most w characters,
\* and the truncation length w-3 never underflows, the widths 0, 1 and 2
\* included.
C19_PrintedFitsWidth ==
    (HeadAccepted /\ is_some(before.cols)) =>
        /\ result # "panic"
        /\ \A k \in 1..Len(out) : Len(out[k]) <= unwrap(before.cols)

\* --------------------------------------------------------------- C20
\* C20: contents is unset until a url command succeeds and is then the body
\* of the last fetch that succeeded, with url set as well; cols, head, find
\* and the lines that are no command, succeeding or failing, leave contents
\* and url as they were.
C20_ContentsIsLastFetched ==
    /\ contents = (IF is_some(fetched) THEN Some(unwrap(fetched).body) ELSE None)
    /\ is_some(contents) => is_some(url)
    /\ (result # "none" /\ ~LastCommand(w_url)) =>
          (contents = before.contents /\ url = before.url /\ fetch = "none")

\* a second url command failed after a first one succeeded: the document of
\* the first is still there
C20_Witness ==
    /\ LastCommand(w_url)
    /\ FetchFailed(fetch)
    /\ is_some(fetched)
    /\ contents = Some(unwrap(fetched).body)
    /\ url # Some(unwrap(fetched).url)

====
